---- MODULE Spec2Model ----
(***************************************************************************)
(* The generation / refinement session of Gouache Studio (src/src/App.tsx). *)
(*                                                                         *)
(* Text is modelled as a sequence of one-character strings, so that trim,  *)
(* the template substitution, the data-URL formatting and the regular      *)
(* expression of handleEdit are computed character by character.           *)
(* A JavaScript null in the generatedImage slot is the empty sequence: the *)
(* code only ever tests the slot for truthiness, and a stored URL always   *)
(* starts with "data:".  A null in the error slot is the string NULL.      *)
(***************************************************************************)
EXTENDS Integers, Sequences, FiniteSets, TLC

VARIABLES
    subject,         \* useState('')            line 11
    isGenerating,    \* useState(false)         line 12
    generatedImage,  \* useState<string|null>   line 13
    editPrompt,      \* useState('')            line 15
    isEditing,       \* useState(false)         line 16
    error,           \* useState<string|null>   line 18
    inflight,        \* the generateContent calls awaited by a handler
    lastEvent,       \* history: the last event and what it handed to the browser
    calc             \* a codec computation on free inputs (idle in a session)

vars == <<subject, isGenerating, generatedImage, editPrompt, isEditing, error,
          inflight, lastEvent, calc>>

session == <<subject, isGenerating, generatedImage, editPrompt, isEditing, error>>

(***************************************************************************)
(* Bounds of the model.                                                    *)
(***************************************************************************)
MaxParts == 2
MaxInFlight == 2
\* longest subject typed when the prompt composer or the download name is
\* examined on its own
MaxSubjectLen == 3

(***************************************************************************)
(* Text helpers.                                                           *)
(***************************************************************************)
NULL == "NULL"
NoImage == <<>>

LowerLetters == <<"a","b","c","d","e","f","g","h","i","j","k","l","m",
                  "n","o","p","q","r","s","t","u","v","w","x","y","z">>
UpperLetters == <<"A","B","C","D","E","F","G","H","I","J","K","L","M",
                  "N","O","P","Q","R","S","T","U","V","W","X","Y","Z">>
Digits == {"0","1","2","3","4","5","6","7","8","9"}
Range(f) == {f[i] : i \in DOMAIN f}
Letters == Range(LowerLetters) \cup Range(UpperLetters)
WhiteSpace == {" ", "\t", "\n", "\r"}
LineTerminators == {"\n", "\r"}

RECURSIVE TrimStart(_)
TrimStart(s) ==
    IF s # <<>> /\ Head(s) \in WhiteSpace THEN TrimStart(Tail(s)) ELSE s

RECURSIVE TrimEnd(_)
TrimEnd(s) ==
    IF s # <<>> /\ s[Len(s)] \in WhiteSpace
    THEN TrimEnd(SubSeq(s, 1, Len(s) - 1))
    ELSE s

\* String.prototype.trim
Trim(s) == TrimEnd(TrimStart(s))

\* !text.trim()  (lines 22, 68, 161, 204)
IsBlankNoTrim(s) == s = <<>>
IsBlank(s) == Trim(s) = <<>>

(***************************************************************************)
(* Prompt composer: PROMPT_TEMPLATE.replace('[SUBJECT]', subject.trim()).  *)
(* The template is kept clause by clause; every clause is one element of   *)
(* the composed prompt, the characters substituted for the placeholder are *)
(* one element each.                                                       *)
(***************************************************************************)
Placeholder == "[SUBJECT]"
TemplateBefore == <<"Painterly gouache illustration of ">>
TemplateAfter ==
    <<", heavy dry-brush texture", ", visible bristle strokes",
      ", grainy paper surface", ", layered opaque paint",
      ", imperfect hand-drawn ink outlines",
      ", limited color palette (#E3CEBF, #FB5E3C. #6F94B7, #FF9B45, #0E2020)",
      ", soft stylized lighting", ", flat graphic shadows",
      ", speckled paint splatter", ", distressed poster edges",
      ", mid-century modern editorial art style", ", high detail texture",
      ", matte finish", ". Use a 2:3 aspect ratio">>
PROMPT_TEMPLATE == TemplateBefore \o <<Placeholder>> \o TemplateAfter

\* GetSubstitution of String.prototype.replace for a string pattern (no
\* capture groups): $$ is "$", $& the matched text, $` the text before the
\* match, $' the text after it; any other "$" stays.
\* The grave accent character (a string literal cannot hold it).
Backtick == "<grave>"

RECURSIVE Substitution(_)
Substitution(r) ==
    IF r = <<>> THEN <<>>
    ELSE IF Head(r) = "$" /\ Len(r) >= 2 /\ r[2] \in {"$", "&", Backtick, "'"}
    THEN (CASE r[2] = "$" -> <<"$">>
            [] r[2] = "&" -> <<Placeholder>>
            [] r[2] = Backtick -> TemplateBefore
            [] OTHER      -> TemplateAfter)
         \o Substitution(SubSeq(r, 3, Len(r)))
    ELSE <<Head(r)>> \o Substitution(Tail(r))

\* line 28
ComposePrompt(subj) == TemplateBefore \o Substitution(Trim(subj)) \o TemplateAfter

(***************************************************************************)
(* Image codec.                                                            *)
(***************************************************************************)
DataPrefix == <<"d","a","t","a",":">>
ImageSlash == <<"i","m","a","g","e","/">>
Base64Mark == <<";","b","a","s","e","6","4",",">>
ImagePng == ImageSlash \o <<"p","n","g">>

\* `data:${mimeType || 'image/png'};base64,${data}`  (lines 48, 101); an
\* omitted or empty mimeType is the empty sequence.
ImageUrlPngOnly(mimeType, data) == DataPrefix \o ImagePng \o Base64Mark \o data
ImageUrl(mimeType, data) ==
    DataPrefix \o (IF mimeType = <<>> THEN ImagePng ELSE mimeType)
               \o Base64Mark \o data

\* Length of the longest prefix of s made of characters of class.
RECURSIVE RunLength(_, _)
RunLength(s, class) ==
    IF s # <<>> /\ Head(s) \in class THEN 1 + RunLength(Tail(s), class) ELSE 0

MimeClass == Letters \cup {"+"}
NoMatch == [ok |-> FALSE, mimeType |-> <<>>, data |-> <<>>]

\* generatedImage.match(/^data:(image\/[a-zA-Z+]+);base64,(.+)$/)  (line 74).
\* ";" is outside the class, so the greedy run is the only way to match;
\* "." matches no line terminator and "$" only the end of the input.
MatchImageUrl(s) ==
    LET head == DataPrefix \o ImageSlash
        h    == Len(head)
        k    == RunLength(SubSeq(s, h + 1, Len(s)), MimeClass)
        b    == h + k + Len(Base64Mark)
        rest == SubSeq(s, b + 1, Len(s))
    IN  IF /\ Len(s) > h
           /\ SubSeq(s, 1, h) = head
           /\ k >= 1
           /\ SubSeq(s, h + k + 1, b) = Base64Mark
           /\ rest # <<>>
           /\ \A i \in DOMAIN rest : rest[i] \notin LineTerminators
        THEN [ok |-> TRUE, mimeType |-> SubSeq(s, h - Len(ImageSlash) + 1, h + k),
              data |-> rest]
        ELSE NoMatch

(***************************************************************************)
(* Responses of ai.models.generateContent.                                 *)
(***************************************************************************)
\* A content part: { text } or { inlineData: { mimeType, data } }.
TextPart(t) == [inlineData |-> FALSE, mimeType |-> <<>>, data |-> <<>>, text |-> t]
InlinePart(m, d) == [inlineData |-> TRUE, mimeType |-> m, data |-> d, text |-> <<>>]

\* response.candidates?.[0]?.content?.parts || []  (lines 45, 98)
FirstParts(candidates) ==
    IF candidates = <<>> THEN <<>>
    ELSE IF ~candidates[1].content THEN <<>>
    ELSE candidates[1].parts

NoPart == [found |-> FALSE, imageUrl |-> <<>>]

\* The for loop with its break (lines 45-53, 98-106): the first part with
\* inlineData decides.
ScanPartsLast(parts) ==
    LET inline == {k \in DOMAIN parts : parts[k].inlineData}
    IN  IF inline = {} THEN NoPart
        ELSE LET k == CHOOSE n \in inline : \A j \in inline : j <= n
             IN  [found |-> TRUE,
                  imageUrl |-> ImageUrl(parts[k].mimeType, parts[k].data)]
RECURSIVE ScanParts(_)
ScanParts(parts) ==
    IF parts = <<>> THEN NoPart
    ELSE IF Head(parts).inlineData
    THEN [found |-> TRUE, imageUrl |-> ImageUrl(Head(parts).mimeType, Head(parts).data)]
    ELSE ScanParts(Tail(parts))

(***************************************************************************)
(* Download name (line 124).                                               *)
(***************************************************************************)
ToLowerCase(c) ==
    IF c \in Range(UpperLetters)
    THEN LowerLetters[CHOOSE i \in DOMAIN UpperLetters : UpperLetters[i] = c]
    ELSE c

\* subject.replace(/[^a-z0-9]/gi, '-').toLowerCase()
Sanitize(s) ==
    [i \in DOMAIN s |->
        ToLowerCase(IF s[i] \in Letters \cup Digits THEN s[i] ELSE "-")]

Illustration == <<"i","l","l","u","s","t","r","a","t","i","o","n">>

FileName(subj) ==
    <<"g","o","u","a","c","h","e","-">>
    \o (IF Sanitize(subj) = <<>> THEN Illustration ELSE Sanitize(subj))
    \o <<".","p","n","g">>

(***************************************************************************)
(* Inputs: what the user can type and what the capability can answer.      *)
(***************************************************************************)
Subjects == {<<>>, <<" ">>, <<" ","F","o","x"," ">>}
EditPrompts == {<<>>, <<" ">>, <<"s","n","o","w"," ">>}

\* inlineData.mimeType: omitted (<<>>), image/png, image/x-icon
MimeTypes == {<<>>, ImagePng, ImageSlash \o <<"x","-","i","c","o","n">>}
\* inlineData.data
Datas == {<<"Q">>, <<"Z","g">>, <<>>}
\* err.message of a fault; "" also stands for a fault without a message
Messages == {"quota exceeded", ""}

SeqsUpTo(S, n) == UNION {[1..k -> S] : k \in 0..n}

\* Every media type with one payload, every payload with one media type.
Parts ==
    {TextPart(<<>>)}
    \cup {InlinePart(m, <<"Q">>) : m \in MimeTypes}
    \cup {InlinePart(ImagePng, d) : d \in Datas}
PartLists == SeqsUpTo(Parts, MaxParts)
Candidates ==
    {[content |-> FALSE, parts |-> <<>>]}
    \cup {[content |-> TRUE, parts |-> ps] : ps \in PartLists}
\* A second candidate, which the handlers never read.
OtherCandidate == [content |-> TRUE, parts |-> <<InlinePart(ImagePng, <<"Z","g">>)>>]

Pending == [status |-> "pending", message |-> "", candidates |-> <<>>]
Rejected(msg) == [status |-> "rejected", message |-> msg, candidates |-> <<>>]
Fulfilled(cands) == [status |-> "fulfilled", message |-> "", candidates |-> cands]

Responses ==
    {Rejected(m) : m \in Messages}
    \cup {Fulfilled(<<>>)}
    \cup {Fulfilled(<<c>>) : c \in Candidates}
    \cup {Fulfilled(<<c, OtherCandidate>>) : c \in {x \in Candidates : Len(x.parts) <= 1}}

(***************************************************************************)
(* The session.                                                            *)
(***************************************************************************)
NoImageReturned == "No image was returned by the model."
InvalidImageFormat == "Invalid image format."
GenerateFallback == "Failed to generate image. Please try again."
EditFallback == "Failed to edit image. Please try again."

Ev(name) == [name |-> name, href |-> <<>>, download |-> <<>>]

NoCalc == [stage |-> "none"]

Init ==
    /\ calc = NoCalc
    /\ subject = <<>>
    /\ isGenerating = FALSE
    /\ generatedImage = NoImage
    /\ editPrompt = <<>>
    /\ isEditing = FALSE
    /\ error = NULL
    /\ inflight = <<>>
    /\ lastEvent = Ev("init")

\* generatedImage as a condition (lines 68, 121, 180, 241)
HasImageAlways == TRUE
HasImage == generatedImage # NoImage

\* disabled={isGenerating || isEditing}  (lines 156, 199)
InputsDisabled == isGenerating \/ isEditing

\* disabled={!subject.trim() || isGenerating || isEditing}  (line 161)
GenerateDisabledOwnFlag == IsBlank(subject) \/ isGenerating
GenerateDisabledTextOnly == IsBlank(subject)
GenerateDisabled == IsBlank(subject) \/ isGenerating \/ isEditing

\* disabled={!editPrompt.trim() || isGenerating || isEditing}  (line 204)
EditDisabledTextOnly == IsBlank(editPrompt)
EditDisabled == IsBlank(editPrompt) \/ isGenerating \/ isEditing

\* {generatedImage && ( <motion.form onSubmit={handleEdit}> ... )}  (line 180)
EditFormRendered == HasImage

\* The call record of a dispatched generateContent; image0 and editPrompt0
\* are history: the slots as they were when the handler started.
Call(kind, request) ==
    [kind |-> kind, request |-> request, resp |-> Pending,
     image0 |-> generatedImage, editPrompt0 |-> editPrompt]

\* lines 30-42
GenerateRequest ==
    [model |-> "gemini-2.5-flash-image",
     parts |-> <<TextPart(ComposePrompt(subject))>>, aspectRatio |-> "3:4"]

\* lines 80-95
EditRequest(match) ==
    [model |-> "gemini-2.5-flash-image",
     parts |-> <<InlinePart(match.mimeType, match.data), TextPart(Trim(editPrompt))>>,
     aspectRatio |-> ""]

\* handleGenerate up to its await (lines 20-42)
handleGenerateClearsImage ==
    IF IsBlank(subject)
    THEN /\ lastEvent' = Ev("generate:returned")
         /\ UNCHANGED <<session, inflight>>
    ELSE /\ isGenerating' = TRUE
         /\ error' = NULL
         /\ generatedImage' = NoImage
         /\ inflight' = Append(inflight, Call("generate", GenerateRequest))
         /\ lastEvent' = Ev("generate:started")
         /\ UNCHANGED <<subject, editPrompt, isEditing>>
handleGenerateKeepsError ==
    IF IsBlank(subject)
    THEN /\ lastEvent' = Ev("generate:returned")
         /\ UNCHANGED <<session, inflight>>
    ELSE /\ isGenerating' = TRUE
         /\ inflight' = Append(inflight, Call("generate", GenerateRequest))
         /\ lastEvent' = Ev("generate:started")
         /\ UNCHANGED <<subject, generatedImage, editPrompt, isEditing, error>>
handleGenerate ==
    IF IsBlank(subject)
    THEN /\ lastEvent' = Ev("generate:returned")
         /\ UNCHANGED <<session, inflight>>
    ELSE /\ isGenerating' = TRUE
         /\ error' = NULL
         /\ inflight' = Append(inflight, Call("generate", GenerateRequest))
         /\ lastEvent' = Ev("generate:started")
         /\ UNCHANGED <<subject, generatedImage, editPrompt, isEditing>>

\* handleEdit up to its await (lines 66-95); a failed match throws before the
\* call, and catch and finally run in the same handler run (lines 112-117).
handleEditNoMatchCheck ==
    IF IsBlank(editPrompt) \/ ~HasImage
    THEN /\ lastEvent' = Ev("edit:returned")
         /\ UNCHANGED <<session, inflight>>
    ELSE /\ isEditing' = TRUE
         /\ error' = NULL
         /\ inflight' = Append(inflight,
                               Call("edit", EditRequest(MatchImageUrl(generatedImage))))
         /\ lastEvent' = Ev("edit:started")
         /\ UNCHANGED <<subject, isGenerating, generatedImage, editPrompt>>
handleEdit ==
    IF IsBlank(editPrompt) \/ ~HasImage
    THEN /\ lastEvent' = Ev("edit:returned")
         /\ UNCHANGED <<session, inflight>>
    ELSE LET match == MatchImageUrl(generatedImage)
         IN  IF ~match.ok
             THEN /\ isEditing' = FALSE
                  /\ error' = InvalidImageFormat
                  /\ lastEvent' = Ev("edit:invalid")
                  /\ UNCHANGED <<subject, isGenerating, generatedImage, editPrompt,
                                 inflight>>
             ELSE /\ isEditing' = TRUE
                  /\ error' = NULL
                  /\ inflight' = Append(inflight, Call("edit", EditRequest(match)))
                  /\ lastEvent' = Ev("edit:started")
                  /\ UNCHANGED <<subject, isGenerating, generatedImage, editPrompt>>

\* The user activates "Generate Illustration" (lines 145, 159-162): a disabled
\* submit button submits nothing.
SubmitGenerate ==
    \/ /\ GenerateDisabled
       /\ lastEvent' = Ev("generate:ignored")
       /\ UNCHANGED <<session, inflight>>
    \/ /\ ~GenerateDisabled
       /\ Len(inflight) < MaxInFlight
       /\ handleGenerate

\* The user wants to apply an edit (lines 180-185, 202-205): without an image
\* there is no form to submit, and a disabled submit button submits nothing.
SubmitEdit ==
    \/ /\ ~EditFormRendered
       /\ lastEvent' = Ev("edit:unavailable")
       /\ UNCHANGED <<session, inflight>>
    \/ /\ EditFormRendered
       /\ EditDisabled
       /\ lastEvent' = Ev("edit:ignored")
       /\ UNCHANGED <<session, inflight>>
    \/ /\ EditFormRendered
       /\ ~EditDisabled
       /\ Len(inflight) < MaxInFlight
       /\ handleEdit

\* onChange of the subject textarea (lines 150-157)
ChangeSubject(s) ==
    /\ ~InputsDisabled
    /\ subject' = s
    /\ lastEvent' = Ev("changeSubject")
    /\ UNCHANGED <<isGenerating, generatedImage, editPrompt, isEditing, error, inflight>>

\* onChange of the refinement input (lines 192-200)
ChangeEditPrompt(s) ==
    /\ EditFormRendered
    /\ ~InputsDisabled
    /\ editPrompt' = s
    /\ lastEvent' = Ev("changeEditPrompt")
    /\ UNCHANGED <<subject, isGenerating, generatedImage, isEditing, error, inflight>>

\* The awaited promise of call i settles (lines 30, 80).
Respond(i, r) ==
    /\ i \in DOMAIN inflight
    /\ inflight[i].resp = Pending
    /\ inflight' = [inflight EXCEPT ![i].resp = r]
    /\ lastEvent' = Ev("responded")
    /\ UNCHANGED session

Remove(seq, i) == SubSeq(seq, 1, i - 1) \o SubSeq(seq, i + 1, Len(seq))

\* err.message || fallback  (lines 60, 114)
MessageOrFallback(msg, fallback) == fallback
MessageOr(msg, fallback) == IF msg = "" THEN fallback ELSE msg

\* handleGenerate after its await (lines 44-63)
ResumeGenerateNoFinally(i) ==
    LET resp == inflight[i].resp
        scan == ScanParts(FirstParts(resp.candidates))
    IN  /\ inflight[i].kind = "generate"
        /\ resp # Pending
        /\ IF resp.status = "fulfilled" /\ scan.found
           THEN /\ generatedImage' = scan.imageUrl
                /\ isGenerating' = FALSE
                /\ lastEvent' = Ev("generate:success")
                /\ UNCHANGED error
           ELSE /\ error' = IF resp.status = "rejected"
                            THEN MessageOr(resp.message, GenerateFallback)
                            ELSE NoImageReturned
                /\ lastEvent' = Ev("generate:failed")
                /\ UNCHANGED <<generatedImage, isGenerating>>
        /\ inflight' = Remove(inflight, i)
        /\ UNCHANGED <<subject, editPrompt, isEditing>>
ResumeGenerate(i) ==
    LET resp == inflight[i].resp
        scan == ScanParts(FirstParts(resp.candidates))
    IN  /\ inflight[i].kind = "generate"
        /\ resp # Pending
        /\ IF resp.status = "fulfilled" /\ scan.found
           THEN /\ generatedImage' = scan.imageUrl
                /\ lastEvent' = Ev("generate:success")
                /\ UNCHANGED error
           ELSE /\ error' = IF resp.status = "rejected"
                            THEN MessageOr(resp.message, GenerateFallback)
                            ELSE NoImageReturned
                /\ lastEvent' = Ev("generate:failed")
                /\ UNCHANGED generatedImage
        /\ isGenerating' = FALSE
        /\ inflight' = Remove(inflight, i)
        /\ UNCHANGED <<subject, editPrompt, isEditing>>

\* handleEdit after its await (lines 97-117)
ResumeEditResetsImage(i) ==
    LET resp == inflight[i].resp
        scan == ScanParts(FirstParts(resp.candidates))
    IN  /\ inflight[i].kind = "edit"
        /\ resp # Pending
        /\ IF resp.status = "fulfilled" /\ scan.found
           THEN /\ generatedImage' = scan.imageUrl
                /\ editPrompt' = <<>>
                /\ lastEvent' = Ev("edit:success")
                /\ UNCHANGED error
           ELSE /\ error' = IF resp.status = "rejected"
                            THEN MessageOr(resp.message, EditFallback)
                            ELSE NoImageReturned
                /\ generatedImage' = NoImage
                /\ lastEvent' = Ev("edit:failed")
                /\ UNCHANGED editPrompt
        /\ isEditing' = FALSE
        /\ inflight' = Remove(inflight, i)
        /\ UNCHANGED <<subject, isGenerating>>
ResumeEditClearsPrompt(i) ==
    LET resp == inflight[i].resp
        scan == ScanParts(FirstParts(resp.candidates))
    IN  /\ inflight[i].kind = "edit"
        /\ resp # Pending
        /\ IF resp.status = "fulfilled" /\ scan.found
           THEN /\ generatedImage' = scan.imageUrl
                /\ lastEvent' = Ev("edit:success")
                /\ UNCHANGED error
           ELSE /\ error' = IF resp.status = "rejected"
                            THEN MessageOr(resp.message, EditFallback)
                            ELSE NoImageReturned
                /\ lastEvent' = Ev("edit:failed")
                /\ UNCHANGED generatedImage
        /\ editPrompt' = <<>>
        /\ isEditing' = FALSE
        /\ inflight' = Remove(inflight, i)
        /\ UNCHANGED <<subject, isGenerating>>
ResumeEdit(i) ==
    LET resp == inflight[i].resp
        scan == ScanParts(FirstParts(resp.candidates))
    IN  /\ inflight[i].kind = "edit"
        /\ resp # Pending
        /\ IF resp.status = "fulfilled" /\ scan.found
           THEN /\ generatedImage' = scan.imageUrl
                /\ editPrompt' = <<>>
                /\ lastEvent' = Ev("edit:success")
                /\ UNCHANGED error
           ELSE /\ error' = IF resp.status = "rejected"
                            THEN MessageOr(resp.message, EditFallback)
                            ELSE NoImageReturned
                /\ lastEvent' = Ev("edit:failed")
                /\ UNCHANGED <<generatedImage, editPrompt>>
        /\ isEditing' = FALSE
        /\ inflight' = Remove(inflight, i)
        /\ UNCHANGED <<subject, isGenerating>>

\* handleDownload (lines 120-128): the link that is clicked has the image as
\* its href and the derived name as its download attribute. Without an image
\* there is no button (lines 241, 258-264) and the handler returns at once
\* (line 121).
DownloadClearsError ==
    \/ /\ ~HasImage
       /\ lastEvent' = Ev("download:unavailable")
       /\ UNCHANGED <<session, inflight>>
    \/ /\ HasImage
       /\ lastEvent' = [name |-> "download", href |-> generatedImage,
                        download |-> FileName(subject)]
       /\ error' = NULL
       /\ UNCHANGED <<subject, isGenerating, generatedImage, editPrompt, isEditing,
                      inflight>>
Download ==
    \/ /\ ~HasImage
       /\ lastEvent' = Ev("download:unavailable")
       /\ UNCHANGED <<session, inflight>>
    \/ /\ HasImage
       /\ lastEvent' = [name |-> "download", href |-> generatedImage,
                        download |-> FileName(subject)]
       /\ UNCHANGED <<session, inflight>>

Next ==
    \/ SubmitGenerate /\ UNCHANGED calc
    \/ SubmitEdit /\ UNCHANGED calc
    \/ \E s \in Subjects : ChangeSubject(s) /\ UNCHANGED calc
    \/ \E s \in EditPrompts : ChangeEditPrompt(s) /\ UNCHANGED calc
    \/ \E i \in 1..MaxInFlight, r \in Responses : Respond(i, r) /\ UNCHANGED calc
    \/ \E i \in 1..MaxInFlight :
          i \in DOMAIN inflight /\ ResumeGenerate(i) /\ UNCHANGED calc
    \/ \E i \in 1..MaxInFlight :
          i \in DOMAIN inflight /\ ResumeEdit(i) /\ UNCHANGED calc
    \/ Download /\ UNCHANGED calc

Spec == Init /\ [][Next]_vars

\* A handler suspended at its await resumes once the promise has settled.
Resume ==
    /\ \E i \in DOMAIN inflight : ResumeGenerate(i) \/ ResumeEdit(i)
    /\ UNCHANGED calc
FairSpec == Spec /\ WF_vars(Resume)

(***************************************************************************)
(* Properties of the session.                                              *)
(***************************************************************************)
Busy == isGenerating \/ isEditing
AllWhite(s) == \A i \in DOMAIN s : s[i] \in {" ", "\t", "\n", "\r"}
Snow == <<"s","n","o","w"," ">>

GenerateSubmitted == {"generate:ignored", "generate:returned", "generate:started"}
EditSubmitted ==
    {"edit:unavailable", "edit:ignored", "edit:returned", "edit:started", "edit:invalid"}
Started == {"generate:started", "edit:started"}

\* The one call in flight completes in this step.
Completing == Len(inflight) = 1 /\ inflight[1].resp.status # "pending" /\ inflight' = <<>>

\* The response carries an image: it is fulfilled and the first candidate has
\* a part with inline data.
CarriesImage(resp) ==
    /\ resp.status = "fulfilled"
    /\ resp.candidates # <<>>
    /\ resp.candidates[1].content
    /\ \E k \in DOMAIN resp.candidates[1].parts : resp.candidates[1].parts[k].inlineData

\* url is the data URL of the first part of the first candidate that has
\* inline data.
IsReturnedPayload(resp, url) ==
    /\ CarriesImage(resp)
    /\ LET ps == resp.candidates[1].parts
       IN  \E k \in DOMAIN ps :
             /\ ps[k].inlineData
             /\ \A j \in 1..(k - 1) : ~ps[j].inlineData
             /\ url = <<"d","a","t","a",":">>
                      \o (IF ps[k].mimeType = <<>>
                          THEN <<"i","m","a","g","e","/","p","n","g">>
                          ELSE ps[k].mimeType)
                      \o <<";","b","a","s","e","6","4",",">> \o ps[k].data

\* The message a failed call leaves in the error slot.
FailureMessage(call) ==
    IF call.resp.status = "rejected"
    THEN IF call.resp.message # "" THEN call.resp.message
         ELSE IF call.kind = "generate"
              THEN "Failed to generate image. Please try again."
              ELSE "Failed to edit image. Please try again."
    ELSE "No image was returned by the model."

\* C1: isGenerating and isEditing are never both true.
C1_NeverBothFlags == ~(isGenerating /\ isEditing)

C1_Witness ==
    /\ isEditing /\ ~isGenerating
    /\ lastEvent.name = "generate:ignored" /\ ~AllWhite(subject)

\* C2: at most one generateContent call is in flight at any time, of either
\* kind, so one completion at a time writes the image slot and the error slot.
C2_AtMostOneInFlight == Len(inflight) <= 1

C2_Witness ==
    /\ Len(inflight) = 1 /\ inflight[1].kind = "edit"
    /\ lastEvent.name = "edit:ignored" /\ ~AllWhite(editPrompt)

C4_FailureKeepsImage ==
    [][ /\ (Completing /\ ~CarriesImage(inflight[1].resp))
            => /\ inflight[1].kind = "generate" => ~isGenerating'
               /\ inflight[1].kind = "edit" => ~isEditing'
               /\ error' \notin {NULL, ""}
               /\ generatedImage' = inflight[1].image0
        /\ lastEvent'.name = "edit:invalid"
            => /\ ~isEditing'
               /\ error' \notin {NULL, ""}
               /\ generatedImage' = generatedImage ]_vars

C4_Witness ==
    /\ lastEvent.name = "edit:failed" /\ error = "No image was returned by the model."
    /\ HasImage /\ ~isEditing

\* C5: while the image slot is empty no edit is started: isEditing is false,
\* no edit call is in flight, and no submit reached handleEdit.
C5_NoEditWithoutImage ==
    generatedImage = <<>> =>
        /\ ~isEditing
        /\ \A i \in DOMAIN inflight : inflight[i].kind # "edit"
        /\ lastEvent.name \notin {"edit:started", "edit:invalid", "edit:returned"}

C5_Witness ==
    /\ generatedImage = <<>> /\ isGenerating
    /\ lastEvent.name = "edit:unavailable"

\* C6: a completed call leaves no flag set: with no call in flight both
\* flags are false, so a new submit is accepted again; and once the external
\* call of a dispatched generate or edit has settled, the session gets back
\* to idle.
C6_IdleAfterCompletion ==
    /\ [](inflight = <<>> => ~isGenerating /\ ~isEditing)
    /\ (inflight # <<>> /\ inflight[1].resp.status # "pending") ~> ~Busy

C6_Witness ==
    /\ lastEvent.name = "generate:success" /\ inflight = <<>>
    /\ ~isGenerating /\ ~isEditing /\ ~AllWhite(subject)

\* C7: when a call completes with a response that carries an image, the image
\* slot holds exactly that payload (the first inline part of the first
\* candidate, as a data URL), the error slot is null, no request is left in
\* flight, and after an edit the refinement text is empty.
C7_SuccessStoresPayload ==
    [][ (Completing /\ CarriesImage(inflight[1].resp))
            => /\ IsReturnedPayload(inflight[1].resp, generatedImage')
               /\ error' = NULL
               /\ inflight[1].kind = "edit" => editPrompt' = <<>> ]_vars

C7_Witness ==
    /\ lastEvent.name = "edit:success" /\ error = NULL /\ editPrompt = <<>>
    /\ generatedImage = <<"d","a","t","a",":","i","m","a","g","e","/","p","n","g",
                          ";","b","a","s","e","6","4",",","Z","g">>

\* C8: a successful edit resets the refinement text to empty; a failed edit
\* leaves it exactly as it was submitted.
C8_EditPromptAfterEdit ==
    [][ /\ (Completing /\ inflight[1].kind = "edit")
            => editPrompt' = IF CarriesImage(inflight[1].resp)
                             THEN <<>>
                             ELSE inflight[1].editPrompt0
        /\ lastEvent'.name = "edit:invalid" => editPrompt' = editPrompt ]_vars

C8_Witness ==
    /\ lastEvent.name = "edit:failed" /\ editPrompt = Snow /\ error = "quota exceeded"

\* C9: a submit of the generate form with an empty or whitespace-only
\* subject, or of the edit form with an empty or whitespace-only refinement
\* text, dispatches no call and changes no state variable, the error slot
\* included.
C9_BlankSubmitChangesNothing ==
    [][ ( \/ lastEvent'.name \in GenerateSubmitted /\ AllWhite(subject)
          \/ lastEvent'.name \in EditSubmitted /\ AllWhite(editPrompt) )
        => UNCHANGED <<session, inflight>> ]_vars

C9_Witness ==
    /\ lastEvent.name = "generate:ignored" /\ subject = <<" ">>
    /\ error # NULL /\ ~Busy

\* C10: the error slot is null while a flag is set; every accepted attempt
\* clears it; it gets a message only when an attempt fails, and then the
\* message of that attempt.
C10_ErrorSlot ==
    /\ [](Busy => error = NULL)
    /\ [][ /\ lastEvent'.name \in Started => error' = NULL
           /\ (error' # error /\ error' # NULL)
               => \/ /\ Completing
                     /\ ~CarriesImage(inflight[1].resp)
                     /\ error' = FailureMessage(inflight[1])
                  \/ /\ lastEvent'.name = "edit:invalid"
                     /\ error' = "Invalid image format." ]_vars

C10_Witness ==
    /\ lastEvent.name = "generate:failed" /\ error = "quota exceeded" /\ ~Busy

\* The data URL of one content part with inline data.
UrlOfPart(part) ==
    <<"d","a","t","a",":">>
    \o (IF part.mimeType = <<>> THEN <<"i","m","a","g","e","/","p","n","g">>
        ELSE part.mimeType)
    \o <<";","b","a","s","e","6","4",",">> \o part.data

\* C13: of a fulfilled response only the first candidate is read, and of it
\* the first part, in list order, that has inline data: that part becomes the
\* image, whatever later parts and other candidates hold. If there is no
\* first candidate, or it has no content, no parts or no part with inline
\* data, the call fails, the image stays and the error slot is exactly
\* "No image was returned by the model.".
C13_FirstInlinePart ==
    [][ (Completing /\ inflight[1].resp.status = "fulfilled")
            => LET cands == inflight[1].resp.candidates
                   ps == IF cands = <<>> THEN <<>>
                         ELSE IF ~cands[1].content THEN <<>>
                         ELSE cands[1].parts
                   inline == {k \in DOMAIN ps : ps[k].inlineData}
               IN  IF inline = {}
                   THEN /\ error' = "No image was returned by the model."
                        /\ generatedImage' = generatedImage
                   ELSE LET k == CHOOSE n \in inline : \A j \in inline : n <= j
                        IN  generatedImage' = UrlOfPart(ps[k]) ]_vars

C13_Witness ==
    /\ lastEvent.name = "generate:failed"
    /\ error = "No image was returned by the model."
    /\ generatedImage = <<>> /\ ~isGenerating

\* C14: when the external call is rejected, the error slot gets the fault's
\* message if it has a non-empty one, otherwise "Failed to generate image.
\* Please try again." for a generate and "Failed to edit image. Please try
\* again." for an edit; the flag of the call is false afterwards and the
\* image is untouched.
C14_FaultMessage ==
    [][ (Completing /\ inflight[1].resp.status = "rejected")
            => /\ error' = IF inflight[1].resp.message # ""
                           THEN inflight[1].resp.message
                           ELSE IF inflight[1].kind = "generate"
                           THEN "Failed to generate image. Please try again."
                           ELSE "Failed to edit image. Please try again."
               /\ ~isGenerating' /\ ~isEditing'
               /\ generatedImage' = generatedImage ]_vars

C14_Witness ==
    /\ lastEvent.name = "edit:failed"
    /\ error = "Failed to edit image. Please try again."
    /\ ~isEditing /\ HasImage

\* C16: a download changes no state variable and dispatches nothing, whatever
\* the flags are; with an image it hands over exactly the value of the image
\* slot, without one it hands over nothing.
C16_DownloadPureRead ==
    [][ lastEvent'.name \in {"download", "download:unavailable"}
            => /\ UNCHANGED <<session, inflight>>
               /\ generatedImage # <<>>
                    => lastEvent'.name = "download" /\ lastEvent'.href = generatedImage
               /\ generatedImage = <<>>
                    => lastEvent' = Ev("download:unavailable") ]_vars

C16_Witness ==
    /\ lastEvent.name = "download" /\ lastEvent.href = generatedImage
    /\ isEditing /\ Len(inflight) = 1 /\ HasImage

\* C17: every value in the image slot is a data URL that the match of
\* handleEdit accepts, so no submitted edit ever ends at "Invalid image
\* format." instead of reaching the external call.
C17_StoredImageDecodable ==
    /\ generatedImage # <<>> => MatchImageUrl(generatedImage).ok
    /\ lastEvent.name # "edit:invalid"

\* C18: when a submitted edit finds that the stored data URL does not match,
\* it ends before any external call: nothing is dispatched, the error slot
\* holds the failure message, isEditing is false, and the image and the
\* refinement text are as they were.
C18_DecodeFailsBeforeCall ==
    [][ ( /\ lastEvent'.name \in {"edit:started", "edit:invalid"}
          /\ ~MatchImageUrl(generatedImage).ok )
            => /\ inflight' = inflight
               /\ error' = "Invalid image format."
               /\ ~isEditing'
               /\ generatedImage' = generatedImage
               /\ editPrompt' = editPrompt ]_vars

C18_Witness ==
    /\ lastEvent.name = "edit:invalid" /\ error = "Invalid image format."
    /\ editPrompt = Snow /\ HasImage /\ inflight = <<>> /\ ~isEditing

\* C19: an image slot that holds an image never becomes empty again; the
\* slot changes only when a call completes with an image, so starting a new
\* generate leaves the old image there until then, and a failure keeps it.
C19_ImageMonotone ==
    [][ /\ generatedImage # <<>> => generatedImage' # <<>>
        /\ generatedImage' # generatedImage
            => Completing /\ CarriesImage(inflight[1].resp)
        /\ lastEvent'.name = "generate:started"
            => generatedImage' = generatedImage ]_vars

C19_Witness ==
    /\ lastEvent.name = "generate:started" /\ isGenerating
    /\ generatedImage # <<>> /\ Len(inflight) = 1

(***************************************************************************)
(* The image codec on its own: the data URL built from a returned payload  *)
(* (lines 47-48, 100-101), matched as handleEdit matches the stored URL    *)
(* (lines 74-78) and built again from what the match captured.             *)
(***************************************************************************)
\* inlineData.mimeType: omitted, image/png, image/jpeg, image/webp,
\* image/svg+xml, image/x-icon, image/jp2
CodecMimeTypes ==
    {<<>>, ImagePng,
     ImageSlash \o <<"j","p","e","g">>,
     ImageSlash \o <<"w","e","b","p">>,
     ImageSlash \o <<"s","v","g","+","x","m","l">>,
     ImageSlash \o <<"x","-","i","c","o","n">>,
     ImageSlash \o <<"j","p","2">>}
\* inlineData.data: base64 text, not empty
CodecDatas ==
    {<<"Q">>, <<"Z","g">>, <<"Z","m","8","=">>, <<"A","+","/","9">>,
     <<"Q","U","J","D">>}

CodecInit ==
    /\ subject = <<>>
    /\ isGenerating = FALSE
    /\ generatedImage = NoImage
    /\ editPrompt = <<>>
    /\ isEditing = FALSE
    /\ error = NULL
    /\ inflight = <<>>
    /\ lastEvent = Ev("init")
    /\ calc \in {[stage |-> "payload", mimeType |-> m, data |-> d, url |-> <<>>,
                  match |-> NoMatch, again |-> <<>>] :
                 m \in CodecMimeTypes, d \in CodecDatas}

\* lines 47-48
Encode ==
    /\ calc.stage = "payload"
    /\ calc' = [calc EXCEPT !.stage = "encoded",
                            !.url = ImageUrl(calc.mimeType, calc.data)]
    /\ UNCHANGED <<session, inflight, lastEvent>>

\* line 74
Decode ==
    /\ calc.stage = "encoded"
    /\ calc' = [calc EXCEPT !.stage = "decoded", !.match = MatchImageUrl(calc.url)]
    /\ UNCHANGED <<session, inflight, lastEvent>>

\* lines 77-78 handed back to lines 47-48
EncodeAgain ==
    /\ calc.stage = "decoded"
    /\ calc.match.ok
    /\ calc' = [calc EXCEPT !.stage = "again",
                            !.again = ImageUrl(calc.match.mimeType, calc.match.data)]
    /\ UNCHANGED <<session, inflight, lastEvent>>

CodecNext == Encode \/ Decode \/ EncodeAgain

CodecSpec == CodecInit /\ [][CodecNext]_vars

\* C11: the codec round-trips: decoding the URL built from a payload (m, d)
\* succeeds and gives back (m, d), with image/png for an omitted m; and
\* building the URL again from what was decoded gives the same URL.
C11_RoundTrip ==
    /\ calc.stage \in {"decoded", "again"}
        => /\ calc.match.ok
           /\ calc.match.mimeType =
                (IF calc.mimeType = <<>>
                 THEN <<"i","m","a","g","e","/","p","n","g">>
                 ELSE calc.mimeType)
           /\ calc.match.data = calc.data
    /\ calc.stage = "again" => calc.again = calc.url

(***************************************************************************)
(* The prompt composer on its own: a subject is in the textarea and the    *)
(* user submits the generate form; the composed prompt is the text part of *)
(* the dispatched request (lines 27-28, 32-36).                            *)
(***************************************************************************)
\* Characters of a typed subject: a letter, a space and the characters that
\* String.prototype.replace reads in a replacement string.
PromptChars == {"a", " ", "$", "&", "'", Backtick}
PromptSubjects == SeqsUpTo(PromptChars, MaxSubjectLen)

PromptInit ==
    /\ calc = NoCalc
    /\ subject \in PromptSubjects
    /\ isGenerating = FALSE
    /\ generatedImage = NoImage
    /\ editPrompt = <<>>
    /\ isEditing = FALSE
    /\ error = NULL
    /\ inflight = <<>>
    /\ lastEvent = Ev("init")

PromptNext == SubmitGenerate /\ UNCHANGED calc

PromptSpec == PromptInit /\ [][PromptNext]_vars

Clauses == Range(TemplateBefore) \cup Range(TemplateAfter)
Count(x, seq) == Cardinality({i \in DOMAIN seq : seq[i] = x})

\* C12: the prompt of every dispatched generate request is the template with
\* subject.trim() standing verbatim where the placeholder stood, and every
\* fixed clause of the template occurs in it exactly once.
C12_PromptVerbatim ==
    \A i \in DOMAIN inflight :
        inflight[i].kind = "generate" =>
            LET prompt == inflight[i].request.parts[1].text
            IN  /\ prompt = TemplateBefore \o Trim(subject) \o TemplateAfter
                /\ \A c \in Clauses : Count(c, prompt) = 1

(***************************************************************************)
(* The download name on its own: an image is shown, a subject is in the    *)
(* textarea and the user downloads (line 124).                             *)
(***************************************************************************)
\* Characters of a typed subject: letters of either case, a digit, a
\* punctuation mark and a space.
NameChars == {"C", "a", "4", "!", " "}
NameSubjects == SeqsUpTo(NameChars, MaxSubjectLen)

NameInit ==
    /\ calc = NoCalc
    /\ subject \in NameSubjects
    /\ isGenerating = FALSE
    /\ generatedImage \in {NoImage, ImageUrl(ImagePng, <<"Q">>)}
    /\ editPrompt = <<>>
    /\ isEditing = FALSE
    /\ error = NULL
    /\ inflight = <<>>
    /\ lastEvent = Ev("init")

NameNext == Download /\ UNCHANGED calc

NameSpec == NameInit /\ [][NameNext]_vars

AlphaNumeric == Letters \cup Digits

RECURSIVE DropSeparators(_)
DropSeparators(s) ==
    IF s = <<>> THEN <<>>
    ELSE IF Head(s) \in AlphaNumeric THEN s
    ELSE DropSeparators(Tail(s))

\* s lowercased, every maximal run of non-alphanumeric characters replaced by
\* one "-".
RECURSIVE CollapseRuns(_)
CollapseRuns(s) ==
    IF s = <<>> THEN <<>>
    ELSE IF Head(s) \in AlphaNumeric
    THEN <<ToLowerCase(Head(s))>> \o CollapseRuns(Tail(s))
    ELSE <<"-">> \o CollapseRuns(DropSeparators(Tail(s)))

\* C15: the name handed over with a download is gouache-<s>.png, where <s>
\* is the subject lowercased with every maximal run of non-alphanumeric
\* characters replaced by one "-", and <s> is "illustration" when the subject
\* is empty or has no alphanumeric character.
C15_DownloadName ==
    lastEvent.name = "download" =>
        lastEvent.download =
            <<"g","o","u","a","c","h","e","-">>
            \o (IF \A i \in DOMAIN subject : subject[i] \notin AlphaNumeric
                THEN <<"i","l","l","u","s","t","r","a","t","i","o","n">>
                ELSE CollapseRuns(subject))
            \o <<".","p","n","g">>


====
